---- MODULE Spec2Model ----
(***************************************************************************)
(* fetch_pr_comments.py: fetch the latest merged pull requests of a        *)
(* repository page by page, fetch every review comment of each of them     *)
(* page by page, and write one text file per pull request.                 *)
(*                                                                         *)
(* The GitHub API is the environment: every requests.get is answered by a  *)
(* response the model chooses freely (a failure, or a page of JSON         *)
(* objects).  One action is one step of the program between two answers.   *)
(*                                                                         *)
(* Three specifications share the actions:                                 *)
(*   Spec     the whole program, main() from its first line to exit        *)
(*   SpecFmp  fetch_merged_prs called on its own with a stubbed source     *)
(*   SpecFrc  fetch_review_comments called on its own with a stubbed source*)
(*   SpecSave save_comments called on its own, several times               *)
(***************************************************************************)
EXTENDS Integers, Sequences, FiniteSets, TLC

VARIABLES
    pc,          \* position of the program
    args_token,  \* args.token (None when --token is not given)
    env_token,   \* os.getenv('GITHUB_TOKEN_PR') (None when unset)
    count,       \* args.count
    token,       \* main's / the fetchers' token
    merged_prs,  \* fetch_merged_prs: accumulator
    page,        \* fetch_merged_prs: page number
    prs,         \* main: the list fetch_merged_prs returned
    idx,         \* main: position of the for loop in prs (1-based)
    pr_number,   \* main / fetch_review_comments: pr['number'] of the item in hand
    comments,    \* fetch_review_comments: accumulator, then main's comments
    c_page,      \* fetch_review_comments: page number
    files,       \* the working directory: filename -> [exists, text]
    stdout,      \* what print() has written, one entry per call
    exit_code,   \* process exit status, meaningful when pc = "exit"
    uncaught,    \* the process ended by an exception nobody caught
    calls,       \* history: the requests of the paginated call in progress
                 \*          (or just returned) with the answer to each
    req_failed,  \* history: some request of the run got a failure as answer
    saves        \* history: the calls of save_comments, <<pr_number, comments>>

vars == <<pc, args_token, env_token, count, token, merged_prs, page, prs, idx,
          pr_number, comments, c_page, files, stdout, exit_code, uncaught,
          calls, req_failed, saves>>

-----------------------------------------------------------------------------
(* Bounds of the model                                                     *)

MaxCount == 3            \* SpecFmp: largest --count
MaxPages == 2            \* SpecFmp: non-empty pages the source serves at most
MaxPageLen == 2          \* SpecFmp: items on a page at most
MaxCommentPages == 2     \* SpecFrc: non-empty comment pages at most
MaxCommentPageLen == 2   \* SpecFrc: comments on a page at most
MainCount == 2           \* Spec: largest --count
MainPages == 1           \* Spec: non-empty pages of closed items at most
MainPageLen == 2         \* Spec: items on a page at most
MainCommentPages == 2    \* Spec: non-empty comment pages per item at most
MainCommentPageLen == 1  \* Spec: comments on a page at most
MaxSaves == 3            \* SpecSave: calls of save_comments at most
MaxSaveLen == 2          \* SpecSave: comments handed to one call at most

(* Program constants                                                       *)
PerPage == 100           \* 'per_page': 100
ExitError == 1           \* exit(1); also the status of an uncaught exception
ExitOk == 0              \* main returns

-----------------------------------------------------------------------------
(* Python values                                                           *)

None == "None"

\* truth value of a str-or-None
Truthy(x) == x # None /\ x # ""

\* a or b
PyOr(a, b) == IF Truthy(a) THEN a ELSE b

Min(a, b) == IF a < b THEN a ELSE b
Max(a, b) == IF a > b THEN a ELSE b

\* s[:n], n of either sign
SliceTo(s, n) ==
    IF n >= 0 THEN SubSeq(s, 1, Min(n, Len(s)))
    ELSE SubSeq(s, 1, Max(Len(s) + n, 0))

\* all sequences over S of length lo..hi
SeqsOf(S, lo, hi) == UNION {[1..n -> S] : n \in lo..hi}

-----------------------------------------------------------------------------
(* What the API can answer                                                 *)

MergedAt == "2024-05-01T10:00:00Z"

\* closed pull requests: two merged ones and one closed without merge
PullPool ==
    { [number |-> 1, merged_at |-> MergedAt],
      [number |-> 2, merged_at |-> MergedAt],
      [number |-> 3, merged_at |-> None] }

PrNumbers == {pr.number : pr \in PullPool}

CommentA == [user |-> [login |-> "alice"], body |-> "LGTM", created_at |-> "t1"]
CommentB == [user |-> [login |-> "bob"], body |-> "nit: rename", created_at |-> "t2"]

CommentPool == {CommentA, CommentB}
MainCommentPool == {CommentA}

\* '-'*40
Sep == "----------------------------------------"

\* a response: ok = FALSE is a transport failure or an HTTP error status
Failure == [ok |-> FALSE, json |-> <<>>]
Ok(body) == [ok |-> TRUE, json |-> body]

\* the answers to the n-th request of a paginated call: a failure, an empty
\* page, or (while the source has pages left) a non-empty page
Answers(pool, n, maxPages, maxLen) ==
    {Failure, Ok(<<>>)} \cup
    (IF n <= maxPages THEN {Ok(p) : p \in SeqsOf(pool, 1, maxLen)} ELSE {})

\* one entry of the request history
Call(endpoint, number, pageNo, auth, r) ==
    [endpoint |-> endpoint, number |-> number, page |-> pageNo,
     per_page |-> PerPage, auth |-> auth, resp |-> r]

-----------------------------------------------------------------------------
(* fetch_merged_prs                                                        *)

\* (changed: while True)
WhileTrue(acc, n) == TRUE

\* while len(merged_prs) < count
WhileCond(acc, n) == Len(acc) < n

\* (changed: the status is not looked at)
NeverRaises(r) == FALSE

\* response.raise_for_status() raises
RaiseForStatus(r) == ~r.ok

\* (changed: stop on a page shorter than per_page)
PagePartial(p) == Len(p) < PerPage

\* if not prs
PageEmpty(p) == Len(p) = 0

\* (changed: the filter dropped)
AnyClosed(pr) == TRUE

\* if pr.get('merged_at')
IsMerged(pr) == Truthy(pr.merged_at)

\* (changed: merged_prs.insert(0, pr))
ListPrepend(acc, pr) == <<pr>> \o acc

\* merged_prs.append(pr)
ListAppend(acc, pr) == Append(acc, pr)

\* if len(merged_prs) >= count: break
ReachedCount(acc, n) == Len(acc) >= n

\* for pr in prs: ... (the scan of one page, with its early break)
RECURSIVE ScanPage(_, _, _)
ScanPage(acc, p, n) ==
    IF p = <<>> THEN acc
    ELSE IF IsMerged(Head(p))
         THEN LET acc2 == ListAppend(acc, Head(p))
              IN  IF ReachedCount(acc2, n) THEN acc2 ELSE ScanPage(acc2, Tail(p), n)
         ELSE ScanPage(acc, Tail(p), n)

\* page += 1
NextPage(p) == p + 1

\* the exception leaves every frame: nothing catches it, the process ends
Abort ==
    /\ pc' = "exit"
    /\ exit_code' = ExitError
    /\ uncaught' = TRUE

\* requests.get(...) answered by r; raise_for_status raises
FmpRaise(r) ==
    /\ pc = "fmp_while"
    /\ WhileCond(merged_prs, count)
    /\ calls' = Append(calls, Call("pulls", 0, page, token, r))
    /\ req_failed' = (req_failed \/ ~r.ok)
    /\ RaiseForStatus(r)
    /\ Abort
    /\ UNCHANGED <<args_token, env_token, count, token, merged_prs, page, prs, idx,
                   pr_number, comments, c_page, files, stdout, saves>>

\* requests.get(...) answered by an empty page: break, return merged_prs[:count]
FmpBreak(r) ==
    /\ pc = "fmp_while"
    /\ WhileCond(merged_prs, count)
    /\ calls' = Append(calls, Call("pulls", 0, page, token, r))
    /\ req_failed' = (req_failed \/ ~r.ok)
    /\ ~RaiseForStatus(r)
    /\ PageEmpty(r.json)
    /\ prs' = SliceTo(merged_prs, count)
    /\ merged_prs' = <<>>
    /\ page' = 1
    /\ pc' = "fmp_returned"
    /\ UNCHANGED <<args_token, env_token, count, token, idx, pr_number, comments,
                   c_page, files, stdout, exit_code, uncaught, saves>>

\* requests.get(...) answered by a non-empty page: scan it, page += 1
FmpScan(r) ==
    /\ pc = "fmp_while"
    /\ WhileCond(merged_prs, count)
    /\ calls' = Append(calls, Call("pulls", 0, page, token, r))
    /\ req_failed' = (req_failed \/ ~r.ok)
    /\ ~RaiseForStatus(r)
    /\ ~PageEmpty(r.json)
    /\ merged_prs' = ScanPage(merged_prs, r.json, count)
    /\ page' = NextPage(page)
    /\ UNCHANGED <<pc, args_token, env_token, count, token, prs, idx, pr_number,
                   comments, c_page, files, stdout, exit_code, uncaught, saves>>

\* the while condition is false: return merged_prs[:count]
FmpReturn ==
    /\ pc = "fmp_while"
    /\ ~WhileCond(merged_prs, count)
    /\ prs' = SliceTo(merged_prs, count)
    /\ merged_prs' = <<>>
    /\ page' = 1
    /\ pc' = "fmp_returned"
    /\ UNCHANGED <<args_token, env_token, count, token, idx, pr_number, comments,
                   c_page, files, stdout, exit_code, uncaught, calls, req_failed,
                   saves>>

-----------------------------------------------------------------------------
(* fetch_review_comments                                                   *)

\* (changed: comments = page_comments)
Replace(acc, p) == p

\* comments.extend(page_comments)
Extend(acc, p) == acc \o p

FrcRaise(r) ==
    /\ pc = "frc_while"
    /\ calls' = Append(calls, Call("comments", pr_number, c_page, token, r))
    /\ req_failed' = (req_failed \/ ~r.ok)
    /\ RaiseForStatus(r)
    /\ Abort
    /\ UNCHANGED <<args_token, env_token, count, token, merged_prs, page, prs, idx,
                   pr_number, comments, c_page, files, stdout, saves>>

\* an empty page: break, return comments
FrcBreak(r) ==
    /\ pc = "frc_while"
    /\ calls' = Append(calls, Call("comments", pr_number, c_page, token, r))
    /\ req_failed' = (req_failed \/ ~r.ok)
    /\ ~RaiseForStatus(r)
    /\ PageEmpty(r.json)
    /\ c_page' = 1
    /\ pc' = "frc_returned"
    /\ UNCHANGED <<args_token, env_token, count, token, merged_prs, page, prs, idx,
                   pr_number, comments, files, stdout, exit_code, uncaught, saves>>

\* a non-empty page: extend, page += 1
FrcExtend(r) ==
    /\ pc = "frc_while"
    /\ calls' = Append(calls, Call("comments", pr_number, c_page, token, r))
    /\ req_failed' = (req_failed \/ ~r.ok)
    /\ ~RaiseForStatus(r)
    /\ ~PageEmpty(r.json)
    /\ comments' = Extend(comments, r.json)
    /\ c_page' = NextPage(c_page)
    /\ UNCHANGED <<pc, args_token, env_token, count, token, merged_prs, page, prs,
                   idx, pr_number, files, stdout, exit_code, uncaught, saves>>

-----------------------------------------------------------------------------
(* save_comments                                                           *)

\* f'pr_{pr_number}_comments.txt'
Filename(n) == <<"pr_", n, "_comments.txt">>

NoFile == [exists |-> FALSE, text |-> <<>>]

\* (changed: open(filename, 'a'))
OpenA(fs, name) == [fs EXCEPT ![name] = [exists |-> TRUE, text |-> @.text]]

\* open(filename, 'w'): create or truncate
OpenW(fs, name) == [fs EXCEPT ![name] = [exists |-> TRUE, text |-> <<>>]]

\* f.write(s)
Write(fs, name, s) == [fs EXCEPT ![name].text = @ \o s]

\* f'[{created}] {user}:\n{body}\n' + '-'*40 + '\n'
RenderComment(c) ==
    <<"[", c.created_at, "] ", c.user.login, ":\n", c.body, "\n", Sep, "\n">>

\* for c in comments: f.write(...)
RECURSIVE WriteAll(_, _, _)
WriteAll(fs, name, cs) ==
    IF cs = <<>> THEN fs
    ELSE WriteAll(Write(fs, name, RenderComment(Head(cs))), name, Tail(cs))

SaveComments(fs, n, cs) == WriteAll(OpenW(fs, Filename(n)), Filename(n), cs)

\* save_comments(pr_number, comments) called on its own
SaveCall(n, cs) ==
    /\ pc = "save"
    /\ Len(saves) < MaxSaves
    /\ files' = SaveComments(files, n, cs)
    /\ saves' = Append(saves, <<n, cs>>)
    /\ UNCHANGED <<pc, args_token, env_token, count, token, merged_prs, page, prs,
                   idx, pr_number, comments, c_page, stdout, exit_code, uncaught,
                   calls, req_failed>>

-----------------------------------------------------------------------------
(* main                                                                    *)

\* (changed: the environment is not consulted)
ArgTokenOnly(a, e) == a

\* args.token or os.getenv('GITHUB_TOKEN_PR')
ResolveToken(a, e) == PyOr(a, e)

\* (changed: if token is None)
TokenIsNone(t) == t = None

\* if not token
TokenMissing(t) == ~Truthy(t)

\* (changed: the test dropped, always save)
AlwaysSave(cs) == TRUE

\* if comments
HasComments(cs) == Len(cs) > 0

MsgNoToken ==
    <<"Error: GitHub token must be provided via --token or GITHUB_TOKEN_PR environment variable">>
MsgNoPrs == <<"No merged PRs found.">>
MsgFetching(n) == <<"Fetching comments for PR #", n, "...">>
MsgSaved(n, k) == <<"Saved ", k, " comments to ", Filename(n)>>
MsgNoComments(n) == <<"PR #", n, " has no review comments.">>

\* no token: print the error, exit(1)
MainNoToken ==
    /\ pc = "start"
    /\ token' = ResolveToken(args_token, env_token)
    /\ TokenMissing(token')
    /\ stdout' = Append(stdout, MsgNoToken)
    /\ pc' = "exit"
    /\ exit_code' = ExitError
    /\ UNCHANGED <<args_token, env_token, count, merged_prs, page, prs, idx,
                   pr_number, comments, c_page, files, uncaught, calls, req_failed,
                   saves>>

\* a token: call fetch_merged_prs(owner, repo, token, count)
MainCallFmp ==
    /\ pc = "start"
    /\ token' = ResolveToken(args_token, env_token)
    /\ ~TokenMissing(token')
    /\ merged_prs' = <<>>
    /\ page' = 1
    /\ calls' = <<>>
    /\ pc' = "fmp_while"
    /\ UNCHANGED <<args_token, env_token, count, prs, idx, pr_number, comments,
                   c_page, files, stdout, exit_code, uncaught, req_failed, saves>>

\* if not prs: print, return
MainNoPrs ==
    /\ pc = "fmp_returned"
    /\ Len(prs) = 0
    /\ stdout' = Append(stdout, MsgNoPrs)
    /\ pc' = "exit"
    /\ exit_code' = ExitOk
    /\ UNCHANGED <<args_token, env_token, count, token, merged_prs, page, prs, idx,
                   pr_number, comments, c_page, files, uncaught, calls, req_failed,
                   saves>>

\* prs is not empty: enter the for loop
MainEnterFor ==
    /\ pc = "fmp_returned"
    /\ Len(prs) > 0
    /\ idx' = 1
    /\ pc' = "main_for"
    /\ UNCHANGED <<args_token, env_token, count, token, merged_prs, page, prs,
                   pr_number, comments, c_page, files, stdout, exit_code, uncaught,
                   calls, req_failed, saves>>

\* for pr in prs: the next item; print, call fetch_review_comments
MainForNext ==
    /\ pc = "main_for"
    /\ idx <= Len(prs)
    /\ pr_number' = prs[idx].number
    /\ stdout' = Append(stdout, MsgFetching(pr_number'))
    /\ comments' = <<>>
    /\ c_page' = 1
    /\ calls' = <<>>
    /\ pc' = "frc_while"
    /\ UNCHANGED <<args_token, env_token, count, token, merged_prs, page, prs, idx,
                   files, exit_code, uncaught, req_failed, saves>>

\* for pr in prs: no item left; main returns
MainForDone ==
    /\ pc = "main_for"
    /\ idx > Len(prs)
    /\ pc' = "exit"
    /\ exit_code' = ExitOk
    /\ UNCHANGED <<args_token, env_token, count, token, merged_prs, page, prs, idx,
                   pr_number, comments, c_page, files, stdout, uncaught, calls,
                   req_failed, saves>>

\* if comments: save_comments, print
MainSave ==
    /\ pc = "frc_returned"
    /\ HasComments(comments)
    /\ files' = SaveComments(files, pr_number, comments)
    /\ saves' = Append(saves, <<pr_number, comments>>)
    /\ stdout' = Append(stdout, MsgSaved(pr_number, Len(comments)))
    /\ idx' = idx + 1
    /\ pc' = "main_for"
    /\ UNCHANGED <<args_token, env_token, count, token, merged_prs, page, prs,
                   pr_number, comments, c_page, exit_code, uncaught, calls,
                   req_failed>>

\* else: print
MainNoComments ==
    /\ pc = "frc_returned"
    /\ ~HasComments(comments)
    /\ stdout' = Append(stdout, MsgNoComments(pr_number))
    /\ idx' = idx + 1
    /\ pc' = "main_for"
    /\ UNCHANGED <<args_token, env_token, count, token, merged_prs, page, prs,
                   pr_number, comments, c_page, files, exit_code, uncaught, calls,
                   req_failed, saves>>

-----------------------------------------------------------------------------
(* Specifications                                                          *)

\* the command lines and environments of a run: --token given or not, the
\* variable unset, empty or set
Credentials ==
    { <<None, None>>, <<None, "">>, <<"tok-arg", None>>, <<None, "tok-env">>,
      <<"tok-arg", "tok-env">> }

\* everything but the inputs and pr_number, as it is before the first line runs
BlankBut ==
    /\ merged_prs = <<>>
    /\ page = 1
    /\ prs = <<>>
    /\ idx = 1
    /\ comments = <<>>
    /\ c_page = 1
    /\ files = [f \in {Filename(n) : n \in PrNumbers} |-> NoFile]
    /\ stdout = <<>>
    /\ exit_code = ExitOk
    /\ uncaught = FALSE
    /\ calls = <<>>
    /\ req_failed = FALSE
    /\ saves = <<>>

Blank == pr_number = 0 /\ BlankBut

Init ==
    /\ pc = "start"
    /\ \E c \in Credentials : args_token = c[1] /\ env_token = c[2]
    /\ count \in -1..MainCount
    /\ token = None
    /\ Blank

Next ==
    \/ MainNoToken
    \/ MainCallFmp
    \/ \E r \in Answers(PullPool, page, MainPages, MainPageLen) : FmpRaise(r)
    \/ \E r \in Answers(PullPool, page, MainPages, MainPageLen) : FmpBreak(r)
    \/ \E r \in Answers(PullPool, page, MainPages, MainPageLen) : FmpScan(r)
    \/ FmpReturn
    \/ MainNoPrs
    \/ MainEnterFor
    \/ MainForNext
    \/ MainForDone
    \/ \E r \in Answers(MainCommentPool, c_page, MainCommentPages, MainCommentPageLen) : FrcRaise(r)
    \/ \E r \in Answers(MainCommentPool, c_page, MainCommentPages, MainCommentPageLen) : FrcBreak(r)
    \/ \E r \in Answers(MainCommentPool, c_page, MainCommentPages, MainCommentPageLen) : FrcExtend(r)
    \/ MainSave
    \/ MainNoComments

Spec == Init /\ [][Next]_vars

\* fetch_merged_prs(owner, repo, token, count) called on its own
InitFmp ==
    /\ pc = "fmp_while"
    /\ args_token = "tok-arg"
    /\ env_token = None
    /\ count \in -1..MaxCount
    /\ token = "tok-arg"
    /\ Blank

NextFmp ==
    \/ \E r \in Answers(PullPool, page, MaxPages, MaxPageLen) : FmpRaise(r)
    \/ \E r \in Answers(PullPool, page, MaxPages, MaxPageLen) : FmpBreak(r)
    \/ \E r \in Answers(PullPool, page, MaxPages, MaxPageLen) : FmpScan(r)
    \/ FmpReturn

SpecFmp == InitFmp /\ [][NextFmp]_vars

\* fetch_review_comments(owner, repo, pr_number, token) called on its own
InitFrc ==
    /\ pc = "frc_while"
    /\ args_token = "tok-arg"
    /\ env_token = None
    /\ count = 0
    /\ token = "tok-arg"
    /\ pr_number \in PrNumbers
    /\ BlankBut

NextFrc ==
    \/ \E r \in Answers(CommentPool, c_page, MaxCommentPages, MaxCommentPageLen) : FrcRaise(r)
    \/ \E r \in Answers(CommentPool, c_page, MaxCommentPages, MaxCommentPageLen) : FrcBreak(r)
    \/ \E r \in Answers(CommentPool, c_page, MaxCommentPages, MaxCommentPageLen) : FrcExtend(r)

SpecFrc == InitFrc /\ [][NextFrc]_vars

\* save_comments(pr_number, comments) called on its own, with the non-empty
\* sequences its caller hands it
InitSave ==
    /\ pc = "save"
    /\ args_token = "tok-arg"
    /\ env_token = None
    /\ count = 0
    /\ token = "tok-arg"
    /\ Blank

\* the identifiers main hands to save_comments are those of merged items
SaveNumbers == {pr.number : pr \in {q \in PullPool : q.merged_at # None}}

NextSave ==
    \E n \in SaveNumbers, cs \in SeqsOf(CommentPool, 1, MaxSaveLen) : SaveCall(n, cs)

SpecSave == InitSave /\ [][NextSave]_vars

-----------------------------------------------------------------------------
(* What the history says, read without the program's own tests             *)

\* the JSON bodies of the answers, in request order
PagesOf(cs) == [k \in 1..Len(cs) |-> cs[k].resp.json]

RECURSIVE Flatten(_)
Flatten(ps) == IF ps = <<>> THEN <<>> ELSE Head(ps) \o Flatten(Tail(ps))

\* the merge timestamp of an item is present
HasMergeTimestamp(pr) == pr.merged_at # None

\* the merged items the first k requests were answered with, in source order
MergedServed(k) == SelectSeq(Flatten(PagesOf(SubSeq(calls, 1, k))), HasMergeTimestamp)

LastCall == calls[Len(calls)]

\* a credential is supplied when the value is there and not empty
Supplied(x) == x # None /\ x # ""
NoCredential == ~Supplied(args_token) /\ ~Supplied(env_token)

\* the text of a file that holds the rendering of cs and nothing else
RECURSIVE Rendering(_)
Rendering(cs) ==
    IF cs = <<>> THEN <<>>
    ELSE <<"[", Head(cs).created_at, "] ", Head(cs).user.login, ":\n",
           Head(cs).body, "\n", Sep, "\n">> \o Rendering(Tail(cs))

\* the positions in saves of the calls for identifier n
SavesOf(n) == {j \in 1..Len(saves) : saves[j][1] = n}

SetMax(S) == CHOOSE x \in S : \A y \in S : y <= x

-----------------------------------------------------------------------------
(* C1: for every count N >= 0 and every sequence of pages, the list        *)
(* fetch_merged_prs returns has at most N elements and every element       *)
(* carries a merge timestamp; no closed-but-unmerged item is in it.        *)
(* Checked under SpecFmp.                                                  *)
C1_CountBoundAndFilter ==
    (pc = "fmp_returned" /\ count >= 0) =>
        /\ Len(prs) <= count
        /\ \A i \in 1..Len(prs) : HasMergeTimestamp(prs[i])

\* the source served an unmerged item and more merged items than were asked for
C1_Witness ==
    /\ pc = "fmp_returned"
    /\ count = 2
    /\ Len(prs) = 2
    /\ Len(MergedServed(Len(calls))) > count
    /\ \E k \in 1..Len(calls) : \E i \in 1..Len(calls[k].resp.json) :
          ~HasMergeTimestamp(calls[k].resp.json[i])

(* C2: once the accumulator reaches N during the scan of a page, the scan  *)
(* stops and no further page is requested: every request was issued with   *)
(* fewer than N merged items served before it, and the list returned is    *)
(* the first N merged items served.  Checked under SpecFmp.                *)
C2_StopAtCount ==
    /\ \A k \in 1..Len(calls) : Len(MergedServed(k - 1)) < count
    /\ (pc = "fmp_returned" /\ count >= 0 /\ Len(MergedServed(Len(calls))) >= count) =>
          prs = SubSeq(MergedServed(Len(calls)), 1, count)

\* count = 2, one merged item on page 1 behind an unmerged one, the second
\* found on page 2 ahead of another merged item: two requests, two items
C2_Witness ==
    /\ pc = "fmp_returned"
    /\ count = 2
    /\ Len(calls) = 2
    /\ Len(MergedServed(1)) = 1
    /\ Len(calls[1].resp.json) = 2
    /\ ~HasMergeTimestamp(calls[1].resp.json[1])
    /\ Len(calls[2].resp.json) = 2
    /\ HasMergeTimestamp(calls[2].resp.json[1])
    /\ HasMergeTimestamp(calls[2].resp.json[2])
    /\ prs = <<calls[1].resp.json[2], calls[2].resp.json[1]>>

(* C3: when the source holds fewer than N merged items and answers with    *)
(* an empty page, fetch_merged_prs returns (no exception) exactly the      *)
(* merged items of the pages before the empty one, in page order then      *)
(* in-page order.  Checked under SpecFmp.                                  *)
C3_ExhaustionReturnsAllMerged ==
    (/\ calls # <<>>
     /\ LastCall.resp = Ok(<<>>)
     /\ Len(MergedServed(Len(calls))) < count) =>
        /\ pc = "fmp_returned"
        /\ ~uncaught
        /\ prs = MergedServed(Len(calls) - 1)

\* two pages of two items with one merged item each (behind, then ahead of, an
\* unmerged one), then the empty page, N = 3
C3_Witness ==
    /\ pc = "fmp_returned"
    /\ count = 3
    /\ Len(calls) = 3
    /\ LastCall.resp = Ok(<<>>)
    /\ Len(prs) = 2
    /\ prs[1] # prs[2]
    /\ Len(calls[1].resp.json) = 2
    /\ Len(calls[2].resp.json) = 2
    /\ prs[1] = calls[1].resp.json[2]
    /\ prs[2] = calls[2].resp.json[1]

(* C4: fetch_review_comments requests pages 1, 2, ... up to and including  *)
(* the first empty page and returns the concatenation of the non-empty     *)
(* pages in page order then in-page order; its length is the sum of the    *)
(* page lengths; nothing is filtered or cut.  Checked under SpecFrc.       *)
C4_CommentsComplete ==
    /\ \A k \in 1..Len(calls) :
          /\ calls[k].page = k
          /\ calls[k].endpoint = "comments"
          /\ calls[k].number = pr_number
          /\ k < Len(calls) => (calls[k].resp.ok /\ calls[k].resp.json # <<>>)
    /\ pc = "frc_returned" =>
          /\ LastCall.resp = Ok(<<>>)
          /\ comments = Flatten(PagesOf(calls))

\* a page of two and a page of one, then the empty page: three comments
C4_Witness ==
    /\ pc = "frc_returned"
    /\ Len(calls) = 3
    /\ calls[1].resp.json = <<CommentB, CommentA>>
    /\ calls[2].resp.json = <<CommentB>>
    /\ comments = <<CommentB, CommentA, CommentB>>

(* C5: with no credential from --token or the environment variable, main   *)
(* prints the configuration error and exits with status 1; no request has  *)
(* been issued and no file written.  Checked under Spec.                   *)
C5_NoCredentialNoRequest ==
    NoCredential =>
        /\ calls = <<>>
        /\ ~req_failed
        /\ \A f \in DOMAIN files : ~files[f].exists
        /\ pc \in {"start", "exit"}
        /\ pc = "exit" => (exit_code = 1 /\ stdout = <<MsgNoToken>>)

\* --token not given, the variable set to the empty string, count 2
C5_Witness ==
    /\ pc = "exit"
    /\ args_token = None
    /\ env_token = ""
    /\ count = 2
    /\ exit_code = 1
    /\ stdout = <<MsgNoToken>>

(* C6 as stated: exit code 1 if no credential is resolvable, exit code 0   *)
(* in every other run.                                                     *)
C6_Original ==
    pc = "exit" => exit_code = (IF NoCredential THEN 1 ELSE 0)

(* C6 as amended: exit code 1 with the printed error if no credential is   *)
(* resolvable; with a credential, exit code 0 when no page request fails   *)
(* (the run without merged items included) and exit code 1, by the         *)
(* uncaught exception, when one fails.  Checked under Spec.                *)
C6_ExitCode ==
    pc = "exit" =>
        /\ exit_code = (IF NoCredential \/ req_failed THEN 1 ELSE 0)
        /\ NoCredential => stdout = <<MsgNoToken>>
        /\ req_failed <=> uncaught
        /\ (~NoCredential /\ ~req_failed /\ prs = <<>>) => stdout = <<MsgNoPrs>>

\* a credential, and the first page request fails
C6_Witness ==
    /\ pc = "exit"
    /\ ~NoCredential
    /\ req_failed
    /\ uncaught
    /\ exit_code = 1
    /\ Len(calls) = 1

(* C7: a failed page request (closed items or comments) aborts the run at  *)
(* that request: the step that gets the failure ends the process by the    *)
(* uncaught exception and writes no file, and no step follows it (no       *)
(* later request, no retry, no file written or changed).  Checked under    *)
(* Spec.                                                                   *)
C7_FailureAborts ==
    [][/\ ~req_failed
       /\ req_failed' =>
            /\ pc' = "exit"
            /\ uncaught'
            /\ exit_code' = 1
            /\ files' = files
            /\ saves' = saves
            /\ stdout' = stdout]_vars

\* the first item was persisted; the second page request for the comments
\* of the second item fails, and the second item has no file
C7_Witness ==
    /\ pc = "exit"
    /\ req_failed
    /\ Len(prs) = 2
    /\ idx = 2
    /\ prs[1].number # prs[2].number
    /\ Len(saves) = 1
    /\ files[Filename(prs[1].number)].text = Rendering(saves[1][2])
    /\ ~files[Filename(prs[2].number)].exists
    /\ LastCall.endpoint = "comments"
    /\ LastCall.page = 2
    /\ Len(comments) > 0

(* C8: in a run without request failure, main takes the items one at a     *)
(* time in the order of prs; each item processed so far has its            *)
(* "Fetching" line and then exactly one of a save_comments call or the     *)
(* "no review comments" line; save_comments is never called with an empty  *)
(* sequence; when main returns every item has been processed.  Checked     *)
(* under Spec.                                                             *)
NoCommentItems == {i \in 1..(idx - 1) : stdout[2 * i] = MsgNoComments(prs[i].number)}
SavedItems == (1..(idx - 1)) \ NoCommentItems
\* the j-th smallest element of SavedItems
RECURSIVE NthSaved(_, _)
NthSaved(S, j) ==
    LET m == CHOOSE x \in S : \A y \in S : x <= y
    IN  IF j = 1 THEN m ELSE NthSaved(S \ {m}, j - 1)

C9_Overwrite ==
    \A n \in PrNumbers :
        files[Filename(n)] =
            IF SavesOf(n) = {} THEN NoFile
            ELSE [exists |-> TRUE, text |-> Rendering(saves[SetMax(SavesOf(n))][2])]

\* identifier 2 saved, then identifier 1 saved twice with different comments
C9_Witness ==
    /\ Len(saves) = 3
    /\ saves[1] = <<2, <<CommentA>>>>
    /\ saves[2] = <<1, <<CommentA, CommentB>>>>
    /\ saves[3] = <<1, <<CommentB>>>>
    /\ files[Filename(1)].text = Rendering(<<CommentB>>)
    /\ files[Filename(2)].text = Rendering(<<CommentA>>)

(* C10: in fetch_merged_prs the page numbers requested are 1, 2, 3, ...    *)
(* with none skipped or repeated; while fewer than N merged items have     *)
(* been served, a non-empty page (partial, or without any merged item)     *)
(* leaves the function about to request the next page number, and the      *)
(* function returns fewer than N items only after a zero-length page.      *)
(* Checked under SpecFmp.                                                  *)
C10_PaginationContinues ==
    /\ \A k \in 1..Len(calls) : calls[k].page = k /\ calls[k].endpoint = "pulls"
    /\ (/\ calls # <<>>
        /\ LastCall.resp.ok
        /\ LastCall.resp.json # <<>>
        /\ Len(MergedServed(Len(calls))) < count) =>
          /\ pc = "fmp_while"
          /\ Len(merged_prs) < count
          /\ page = Len(calls) + 1
    /\ (pc = "fmp_returned" /\ Len(prs) < count) =>
          (calls # <<>> /\ LastCall.resp = Ok(<<>>))

\* a one-item page without merged item, then a one-item page, then a third request
C10_Witness ==
    /\ Len(calls) = 3
    /\ Len(calls[1].resp.json) = 1
    /\ ~HasMergeTimestamp(calls[1].resp.json[1])
    /\ Len(calls[2].resp.json) = 1
    /\ Len(calls[1].resp.json) < PerPage
    /\ calls[3].page = 3

====
